---- MODULE Spec2Model ----
(***************************************************************************)
(* Realtime synchronisation hook of spacenotes (useRealtimeDocState):      *)
(* the reducer bridge `apply`, the pending-update buffer, and the React    *)
(* state-updater queue the reducer's setDoc calls go through.              *)
(***************************************************************************)
EXTENDS Integers, Sequences, FiniteSets, TLC

\* ------------------------------------------------------------------ bounds
\* number of actions the channel delivers in a run
MaxActions == 3

\* ------------------------------------------------------------- value sets
Clients == {"A", "B"}
NodeIds == {"n1", "n2"}
EdgeIds == {"e1", "e2"}
Senders == {"s1", "s2"}

\* JS objects are functions from field names to values.
EmptyObj == [f \in {} |-> 0]

\* Partial<CanvasNode> fragments carried by node:update
PropsSet == {[x |-> 1], [y |-> 1], [x |-> 2, y |-> 2]}

\* CanvasNode values carried by node:create
NodeSet == {[id |-> n, x |-> 0, y |-> 0] : n \in NodeIds}

\* Edge values carried by edge:create
EdgeSet == {[id |-> "e1", fromNode |-> "n1", toNode |-> "n2"],
            [id |-> "e2", fromNode |-> "n1", toNode |-> "n2"],
            [id |-> "e2", fromNode |-> "n2", toNode |-> "n1"],
            [id |-> "e1", fromNode |-> "n2", toNode |-> "n2"]}

\* each participant broadcasts its own cursor colour (cursorColor ref)
ColorOf(s) == IF s = "s1" THEN "red" ELSE "blue"

\* the document variants of RealtimeAction
DocAction ==
       {[type |-> "node:create", node |-> v] : v \in NodeSet}
  \cup {[type |-> "node:update", id |-> n, props |-> p] : n \in NodeIds, p \in PropsSet}
  \cup {[type |-> "node:delete", id |-> n] : n \in NodeIds}
  \cup {[type |-> "edge:create", edge |-> e] : e \in EdgeSet}
  \cup {[type |-> "edge:delete", from |-> "n1", to |-> "n2"],
        [type |-> "edge:delete", from |-> "n2", to |-> "n1"]}
  \cup {[type |-> "space:background", color |-> "black"]}
  \cup {[type |-> "space:title", title |-> "t1"]}

\* the presence variants of RealtimeAction, as sent by participant s
PresenceAction(s) ==
  {[type |-> "cursor:move", x |-> 1, y |-> 1, color |-> ColorOf(s)],
   [type |-> "node:select", ids |-> <<"n1">>, color |-> ColorOf(s)]}

\* the messages the channel can deliver: an action and its sender; apply()
\* reads the sender of presence actions only
Messages ==
       {[action |-> a, sender |-> "s1"] : a \in DocAction}
  \cup UNION {{[action |-> a, sender |-> s] : a \in PresenceAction(s)} : s \in Senders}

\* ------------------------------------------------- the sending side's sets
Users == {"u1"}
DocIds == {"d1", "d2"}
Kinds == {"update", "cursor", "selection"}

\* debounce windows of sendUpdate, sendCursor and sendSelection
UpdateWait == 50
CursorWait == 20
SelectionWait == 20

\* number of local handler calls in a run
MaxCalls == 3
\* the step by which time advances when no timer is due sooner
Quantum == 25

VARIABLES
  doc,             \* doc[c]: the document state of client c (useDocState)
  pendingUpdates,  \* pendingUpdates[c]: the ref's record id -> fragment
  cursors,         \* cursors[c]: sender -> {x, y, color}
  selections,      \* selections[c]: sender -> ids
  queue,           \* queue[c]: state updaters queued by setDoc/setCursors/setSelections/...
  rendering,       \* rendering[c]: React is running c's queued updaters
  log,             \* the actions the channel has delivered, in order
  \* the local client ("A") as a sender
  userId,          \* session?.user?.id || ''
  sessionToken,    \* useState('')
  canSendRef,      \* canSendRef.current
  tokenDeps,       \* [doc.id] of the last run of the session-token effect
  canSendDeps,     \* [doc.userId, userId, sessionToken] of the last run of its effect
  mounted,         \* the mount effects have run
  urlId,           \* getUrlId(): the document id in the page URL
  urlSession,      \* the `session` parameter of the page URL
  sessionStorage,  \* doc id -> token (keys spacenotes-session:<id>)
  inflight,        \* doc ids whose loadDoc() promise is pending
  timers,          \* timers[k]: the debounce timer of signal kind k
  sent,            \* calls of the channel's send(): <<room, action>>, in order
  stableSend,      \* whether send() of an old render publishes to the current room
  calls,           \* number of local handler calls so far
  burst,           \* history: burst[k]: the calls of kind k in its current or last burst
  elapsed,         \* history: time since the last onNodeUpdate call (capped)
  fork,            \* localStorage['spacenotes-fork'] and the saveDoc() of the fork
  saves,           \* history: the saveDoc()/saveDocBeacon() calls issued so far
  originalDoc,     \* originalDoc.current, as the document it was serialised from
  refreshing,      \* doc ids whose loadDoc() of the database subscription is pending
  forking          \* documents whose saveDoc() of onFork is pending

recvVars == <<doc, pendingUpdates, cursors, selections, queue, rendering, log>>
sendVars == <<userId, sessionToken, canSendRef, tokenDeps, canSendDeps, mounted,
              urlId, urlSession, sessionStorage, inflight, timers, sent,
              stableSend, calls, burst, elapsed, fork, saves, originalDoc,
              refreshing, forking>>
vars == <<recvVars, sendVars>>

\* --------------------------------------------------------------- helpers

\* Object.assign(target, source)
Assign(target, source) ==
  [f \in DOMAIN target \cup DOMAIN source |->
     IF f \in DOMAIN source THEN source[f] ELSE target[f]]

\* delete obj[key]
Delete(obj, key) == [k \in DOMAIN obj \ {key} |-> obj[k]]

\* {...obj, [key]: value}
Put(obj, key, value) ==
  [k \in DOMAIN obj \cup {key} |-> IF k = key THEN value ELSE obj[k]]

\* index of the first node with the id, 0 when none: nodes.find((n) => n.id === id)
FindNode(nodes, id) ==
  IF \E i \in 1..Len(nodes) : nodes[i].id = id
  THEN CHOOSE i \in 1..Len(nodes) :
         /\ nodes[i].id = id
         /\ \A j \in 1..(i - 1) : nodes[j].id # id
  ELSE 0

EmptyDoc ==
  [id |-> "", title |-> "", userId |-> "", backgroundColor |-> "",
   nodes |-> <<>>, edges |-> <<>>]

\* --------------------------------------------- the updaters of apply()

\* node:create that never looks at the buffer
CreateNodeUpdaterNoFlush(a, d, pend) ==
  [doc |-> [d EXCEPT !.nodes = Append(d.nodes, a.node)], pending |-> pend]

\* case 'node:create': the function passed to setDoc
CreateNodeUpdater(a, d, pend) ==
  LET newNodes == Append(d.nodes, a.node)
      id == a.node.id
  IN IF id \in DOMAIN pend
     THEN LET i == FindNode(newNodes, id)
          IN [doc |-> [d EXCEPT !.nodes =
                         [newNodes EXCEPT ![i] = Assign(newNodes[i], pend[id])]],
              pending |-> Delete(pend, id)]
     ELSE [doc |-> [d EXCEPT !.nodes = newNodes], pending |-> pend]

\* node:update whose buffered fragment is replaced by the latest props
UpdateNodeUpdaterReplace(a, d, pend) ==
  LET i == FindNode(d.nodes, a.id)
  IN IF i # 0
     THEN [doc |-> [d EXCEPT !.nodes = [d.nodes EXCEPT ![i] = Assign(d.nodes[i], a.props)]],
           pending |-> pend]
     ELSE [doc |-> d, pending |-> Put(pend, a.id, a.props)]

\* node:update that creates the node when the id is unknown
UpdateNodeUpdaterUpsert(a, d, pend) ==
  LET i == FindNode(d.nodes, a.id)
  IN IF i # 0
     THEN [doc |-> [d EXCEPT !.nodes = [d.nodes EXCEPT ![i] = Assign(d.nodes[i], a.props)]],
           pending |-> pend]
     ELSE [doc |-> [d EXCEPT !.nodes = Append(d.nodes, Assign([id |-> a.id], a.props))],
           pending |-> pend]

\* case 'node:update': the function passed to setDoc
UpdateNodeUpdater(a, d, pend) ==
  LET i == FindNode(d.nodes, a.id)
  IN IF i # 0
     THEN [doc |-> [d EXCEPT !.nodes = [d.nodes EXCEPT ![i] = Assign(d.nodes[i], a.props)]],
           pending |-> pend]
     ELSE LET old == IF a.id \in DOMAIN pend THEN pend[a.id] ELSE EmptyObj
          IN [doc |-> d, pending |-> Put(pend, a.id, Assign(old, a.props))]

\* node:delete whose edge filter forgets the toNode side
DeleteNodeUpdaterFromOnly(a, d, pend) ==
  LET keepNode(n) == n.id # a.id
      keepEdge(e) == e.fromNode # a.id
  IN [doc |-> [d EXCEPT !.nodes = SelectSeq(d.nodes, keepNode),
                        !.edges = SelectSeq(d.edges, keepEdge)],
      pending |-> pend]

\* case 'node:delete': the function passed to setDoc
DeleteNodeUpdater(a, d, pend) ==
  LET keepNode(n) == n.id # a.id
      keepEdge(e) == e.fromNode # a.id /\ e.toNode # a.id
  IN [doc |-> [d EXCEPT !.nodes = SelectSeq(d.nodes, keepNode),
                        !.edges = SelectSeq(d.edges, keepEdge)],
      pending |-> pend]

\* case 'edge:create'
CreateEdgeUpdater(a, d, pend) ==
  [doc |-> [d EXCEPT !.edges = Append(d.edges, a.edge)], pending |-> pend]

\* case 'edge:delete', removing the edges between the pair in both directions
DeleteEdgeUpdaterEitherDirection(a, d, pend) ==
  LET keepEdge(e) == ~(\/ (e.fromNode = a.from /\ e.toNode = a.to)
                       \/ (e.fromNode = a.to /\ e.toNode = a.from))
  IN [doc |-> [d EXCEPT !.edges = SelectSeq(d.edges, keepEdge)], pending |-> pend]

\* case 'edge:delete'
DeleteEdgeUpdater(a, d, pend) ==
  LET keepEdge(e) == ~(e.fromNode = a.from /\ e.toNode = a.to)
  IN [doc |-> [d EXCEPT !.edges = SelectSeq(d.edges, keepEdge)], pending |-> pend]

\* the document updater queued by apply(action), by action type
DocUpdater(a, d, pend) ==
  CASE a.type = "node:create" -> CreateNodeUpdater(a, d, pend)
    [] a.type = "node:update" -> UpdateNodeUpdater(a, d, pend)
    [] a.type = "node:delete" -> DeleteNodeUpdater(a, d, pend)
    [] a.type = "edge:create" -> CreateEdgeUpdater(a, d, pend)
    [] a.type = "edge:delete" -> DeleteEdgeUpdater(a, d, pend)
    [] a.type = "space:background" ->
         [doc |-> [d EXCEPT !.backgroundColor = a.color], pending |-> pend]
    [] a.type = "space:title" ->
         [doc |-> [d EXCEPT !.title = a.title], pending |-> pend]
    [] OTHER -> [doc |-> d, pending |-> pend]

\* a cursor updater that writes the sender's cursor into every known entry
CursorUpdaterBroadcast(a, sender, c) ==
  IF a.type \in {"cursor:move", "node:select"}
  THEN [s \in DOMAIN c \cup {sender} |->
          [x |-> IF a.type = "cursor:move" THEN a.x ELSE 0,
           y |-> IF a.type = "cursor:move" THEN a.y ELSE 0,
           color |-> a.color]]
  ELSE c

\* the setCursors updaters of 'cursor:move' and 'node:select'
CursorUpdater(a, sender, c) ==
  CASE a.type = "cursor:move" ->
         Put(c, sender, [x |-> a.x, y |-> a.y, color |-> a.color])
    [] a.type = "node:select" ->
         Put(c, sender,
             [x |-> IF sender \in DOMAIN c THEN c[sender].x ELSE 0,
              y |-> IF sender \in DOMAIN c THEN c[sender].y ELSE 0,
              color |-> a.color])
    [] OTHER -> c

\* the setSelections updater of 'node:select'
SelectionUpdater(a, sender, s) ==
  IF a.type = "node:select" THEN Put(s, sender, a.ids) ELSE s

\* what apply() does synchronously, besides queueing updaters:
\* case 'node:delete' ends with  delete pendingUpdates.current[action.id]
ApplySync(a, pend) ==
  IF a.type = "node:delete" THEN Delete(pend, a.id) ELSE pend

\* ------------------------------------------- updaters of the local handlers

\* the operations of useDocState behind state.onNodeCreate, state.onNodeUpdate,
\* state.onNodeDelete, state.onDisconnect and state.onBackgroundColorChange:
\* the same mutations as the reducer's, without the pending-update buffer
StateOpUpdater(a, d) ==
  CASE a.type = "node:create" -> [d EXCEPT !.nodes = Append(d.nodes, a.node)]
    [] a.type = "node:update" ->
         LET i == FindNode(d.nodes, a.id)
         IN IF i # 0 THEN [d EXCEPT !.nodes[i] = Assign(d.nodes[i], a.props)] ELSE d
    [] a.type = "node:delete" -> DeleteNodeUpdater(a, d, EmptyObj).doc
    [] a.type = "edge:delete" -> DeleteEdgeUpdater(a, d, EmptyObj).doc
    [] a.type = "space:background" -> [d EXCEPT !.backgroundColor = a.color]
    [] OTHER -> d

\* the setDoc updaters of onConnect and onTitleChange
HandlerUpdater(a, d) ==
  CASE a.type = "edge:create" -> [d EXCEPT !.edges = Append(d.edges, a.edge)]
    [] a.type = "space:title" -> [d EXCEPT !.title = a.title]
    [] OTHER -> d

\* the setDoc calls of useInitApp: the id from the URL, a fresh id and the
\* loaded document in the load effect, { ...prevDoc, userId } in onFork
InitUpdater(a, d) ==
  CASE a.type = "init:url" -> IF d.id # a.id THEN [d EXCEPT !.id = a.id] ELSE d
    [] a.type = "init:new" -> [d EXCEPT !.id = a.id]
    [] a.type = "setDoc" -> a.doc
    [] a.type = "onFork" -> [d EXCEPT !.userId = a.userId]
    [] OTHER -> d

\* a queued updater of the document: of apply() for a delivered action, of a
\* local handler otherwise
QueuedUpdater(m, d, pend) ==
  IF m.sender = "local"
  THEN [doc |-> InitUpdater(m.action, HandlerUpdater(m.action, StateOpUpdater(m.action, d))),
        pending |-> pend]
  ELSE DocUpdater(m.action, d, pend)

\* the document loadDoc(id) resolves to: d1 is owned by u1, d2 by a user who
\* is never the local one
StoredDoc(id) ==
  [id |-> id, title |-> "t0", userId |-> IF id = "d1" THEN "u1" ELSE "u2",
   backgroundColor |-> "", nodes |-> <<[id |-> "n1", x |-> 0, y |-> 0]>>,
   edges |-> <<>>]

\* randomId() of the load effect when the URL names no document
NewDocId == "d0"

\* the document kept in localStorage for a fork after sign-in
SavedFork ==
  [id |-> "d2", title |-> "t0", userId |-> "", backgroundColor |-> "",
   nodes |-> <<[id |-> "n1", x |-> 0, y |-> 0]>>, edges |-> <<>>]

\* randomId() of the pending-fork effect
NewForkId == "f1"

\* randomId() of the fork prompt of the beforeunload handler
UnloadForkId == "f2"

\* const newDoc = { ...saved, id: randomId(), userId }
ForkedDoc(user) == [SavedFork EXCEPT !.id = NewForkId, !.userId = user]

\* --------------------------------------------------- room and send-gating

\* const roomId = sessionToken ? `${doc.id}:${sessionToken}` : ''
RoomIdOf(id, token) == IF token # "" THEN id \o ":" \o token ELSE ""

RoomId == RoomIdOf(doc["A"].id, sessionToken)

\* the room of the first render, whose sendIfAllowed the debounced senders keep
MountRoom == RoomIdOf(EmptyDoc.id, "")

\* the room a send() created by the render of room r publishes to
SendRoom(r) == IF stableSend THEN RoomId ELSE r

\* sendIfAllowed(action) through the send() of the render of room r
SendIfAllowed(a, r) ==
  IF canSendRef THEN Append(sent, [room |-> SendRoom(r), action |-> a]) ELSE sent

\* canSendRef.current = !doc.userId || doc.userId === userId || !!sessionToken
CanSend(owner, user, token) == owner = "" \/ owner = user \/ token # ""

CanSendDepsNow == <<doc["A"].userId, userId, sessionToken>>

\* an effect of the last commit has not run yet
EffectsPending ==
  \/ ~mounted
  \/ tokenDeps # <<doc["A"].id>>
  \/ canSendDeps # CanSendDepsNow

\* const token = fromUrl || stored
TokenFor(id) ==
  IF urlSession # "" THEN urlSession
  ELSE IF id \in DOMAIN sessionStorage THEN sessionStorage[id] ELSE ""

\* ------------------------------------------------------------- debounce

Wait(k) ==
  CASE k = "update" -> UpdateWait
    [] k = "cursor" -> CursorWait
    [] k = "selection" -> SelectionWait

IdleTimer == [armed |-> FALSE, left |-> 0, args |-> <<>>]

\* debounce(fn, wait): a call cancels the pending timer and starts a new one
\* holding the arguments of this call
Debounced(k, args) ==
  [timers EXCEPT ![k] = [armed |-> TRUE, left |-> Wait(k), args |-> args]]

\* callbacks that send the arguments of the first call of the burst
DebouncedActionFirst(k, args) ==
  CASE k = "update" ->
         [type |-> "node:update", id |-> burst[k][1].id, props |-> burst[k][1].props]
    [] k = "cursor" -> [type |-> "cursor:move", x |-> burst[k][1].x,
                        y |-> burst[k][1].y, color |-> ColorOf("s1")]
    [] k = "selection" -> [type |-> "node:select", ids |-> burst[k][1].ids,
                           color |-> ColorOf("s1")]

\* the callbacks given to debounce for sendUpdate, sendCursor, sendSelection
DebouncedAction(k, args) ==
  CASE k = "update" -> [type |-> "node:update", id |-> args.id, props |-> args.props]
    [] k = "cursor" -> [type |-> "cursor:move", x |-> args.x, y |-> args.y,
                        color |-> ColorOf("s1")]
    [] k = "selection" -> [type |-> "node:select", ids |-> args.ids,
                           color |-> ColorOf("s1")]

\* ------------------------------------------------------------------ state

InitCommon ==
  /\ doc = [c \in Clients |-> EmptyDoc]
  /\ pendingUpdates = [c \in Clients |-> EmptyObj]
  /\ cursors = [c \in Clients |-> EmptyObj]
  /\ selections = [c \in Clients |-> EmptyObj]
  /\ queue = [c \in Clients |-> <<>>]
  /\ rendering = [c \in Clients |-> FALSE]
  /\ log = <<>>
  /\ userId = ""
  /\ sessionToken = ""
  /\ canSendRef = TRUE
  /\ tokenDeps = <<"">>
  /\ canSendDeps = <<"", "", "">>
  /\ mounted = FALSE
  /\ inflight = {}
  /\ timers = [k \in Kinds |-> IdleTimer]
  /\ sent = <<>>
  /\ calls = 0
  /\ burst = [k \in Kinds |-> <<>>]
  /\ elapsed = 0
  /\ saves = {}
  /\ originalDoc = EmptyDoc
  /\ refreshing = {}
  /\ forking = {}

\* a page opened without a document id or session parameter
Init ==
  /\ InitCommon
  /\ sessionStorage = EmptyObj
  /\ urlId = ""
  /\ urlSession = ""
  /\ stableSend = TRUE
  /\ fork = "none"

\* a page opened on any URL
InitSend ==
  /\ InitCommon
  /\ sessionStorage = EmptyObj
  /\ urlId \in {"", "d1"}
  /\ urlSession \in {"", "tk1"}
  /\ stableSend \in BOOLEAN
  /\ fork = "none"

\* The channel delivers message m to the clients in C: each runs
\* apply(action, sender), which queues the updaters with setDoc / setCursors /
\* setSelections and runs the synchronous buffer discard of node:delete.
Deliver(C, m) ==
  /\ Len(log) < MaxActions
  /\ \A c \in C : ~rendering[c]
  /\ log' = Append(log, m)
  /\ queue' = [c \in Clients |-> IF c \in C THEN Append(queue[c], m) ELSE queue[c]]
  /\ pendingUpdates' = [c \in Clients |->
        IF c \in C THEN ApplySync(m.action, pendingUpdates[c]) ELSE pendingUpdates[c]]
  /\ UNCHANGED <<doc, cursors, selections, rendering, sendVars>>

\* React renders client c: the queued updaters run in the order they were
\* queued, one per step; no handler of c runs until the queue is empty.
RunUpdater(c) ==
  /\ queue[c] # <<>>
  /\ LET m == Head(queue[c])
         r == QueuedUpdater(m, doc[c], pendingUpdates[c])
     IN /\ doc' = [doc EXCEPT ![c] = r.doc]
        /\ pendingUpdates' = [pendingUpdates EXCEPT ![c] = r.pending]
        /\ cursors' = [cursors EXCEPT ![c] = CursorUpdater(m.action, m.sender, @)]
        /\ selections' = [selections EXCEPT ![c] = SelectionUpdater(m.action, m.sender, @)]
        /\ sessionToken' = IF m.action.type = "setSessionToken"
                           THEN m.action.token ELSE sessionToken
        \* the init:url updater starts loadDoc(id) when the id is new
        /\ inflight' = IF m.action.type = "init:url" /\ doc[c].id # m.action.id
                       THEN inflight \cup {m.action.id} ELSE inflight
        \* the onFork updater calls saveDoc(newDoc, userId)
        /\ saves' = IF m.action.type = "onFork"
                    THEN saves \cup {[id |-> r.doc.id, viewed |-> doc[c].id,
                                      owner |-> doc[c].userId, by |-> m.action.userId,
                                      via |-> "onFork"]}
                    ELSE saves
        /\ forking' = IF m.action.type = "onFork" THEN forking \cup {r.doc} ELSE forking
  /\ queue' = [queue EXCEPT ![c] = Tail(@)]
  /\ rendering' = [rendering EXCEPT ![c] = (Tail(queue[c]) # <<>>)]
  /\ UNCHANGED <<fork, originalDoc, refreshing,
                 log, userId, canSendRef, tokenDeps, canSendDeps, mounted, urlId,
                 urlSession, sessionStorage, timers, sent, stableSend, calls,
                 burst, elapsed>>

\* one client receiving the channel's actions
Next ==
  \/ \E m \in Messages : Deliver({"A"}, m)
  \/ RunUpdater("A")

Spec == Init /\ [][Next]_vars

\* two clients receiving the same ordered actions, each rendering on its own
NextConv ==
  \/ \E m \in Messages : Deliver(Clients, m)
  \/ \E c \in Clients : RunUpdater(c)

SpecConv == Init /\ [][NextConv]_vars

\* ------------------------------------------------------ the sending side

\* what the local user can ask for through the handlers that send at once
LocalEdits ==
  {[type |-> "node:create", node |-> [id |-> "n2", x |-> 0, y |-> 0]],
   [type |-> "node:delete", id |-> "n1"],
   [type |-> "space:title", title |-> "t1"]}

\* randomId() of onShareSession
ShareTokens == {"tk2"}

\* arguments of onNodeUpdate, onCursorMove and onSelectNodes
UpdateArgs == {[id |-> "n1", props |-> p] : p \in {[x |-> 1], [x |-> 2, y |-> 2]}}
CursorArgs == {[x |-> 1, y |-> 1], [x |-> 2, y |-> 2]}
SelectionArgs == {[ids |-> <<"n1">>]}

Enqueue(a) == [queue EXCEPT !["A"] = Append(@, [action |-> a, sender |-> "local"])]

\* the calls of kind k since its timer was last idle, with this one
Burst(k, args) ==
  [burst EXCEPT ![k] = IF timers[k].armed THEN Append(@, args) ELSE <<args>>]

\* onNodeCreate, onNodeDelete, onConnect, onDisconnect,
\* onBackgroundColorChange, onTitleChange: mutate the document, then
\* sendIfAllowed(action)
OnEdit(a) ==
  /\ calls < MaxCalls
  /\ ~rendering["A"]
  /\ queue' = Enqueue(a)
  /\ sent' = SendIfAllowed(a, RoomId)
  /\ calls' = calls + 1
  /\ UNCHANGED <<fork, saves, originalDoc, refreshing, forking,
                 doc, pendingUpdates, cursors, selections, rendering, log, userId,
                 sessionToken, canSendRef, tokenDeps, canSendDeps, mounted, urlId,
                 urlSession, sessionStorage, inflight, timers, stableSend, burst,
                 elapsed>>

\* onNodeUpdate with sendIfAllowed called directly instead of sendUpdate.current
OnNodeUpdateUndebounced(id, props) ==
  /\ calls < MaxCalls
  /\ ~rendering["A"]
  /\ queue' = Enqueue([type |-> "node:update", id |-> id, props |-> props])
  /\ sent' = SendIfAllowed([type |-> "node:update", id |-> id, props |-> props], RoomId)
  /\ calls' = calls + 1
  /\ UNCHANGED <<fork, saves, originalDoc, refreshing, forking,
                 doc, pendingUpdates, cursors, selections, rendering, log, userId,
                 sessionToken, canSendRef, tokenDeps, canSendDeps, mounted, urlId,
                 urlSession, sessionStorage, inflight, timers, stableSend, burst,
                 elapsed>>

\* onNodeUpdate that only schedules the broadcast
OnNodeUpdateSendOnly(id, props) ==
  /\ calls < MaxCalls
  /\ ~rendering["A"]
  /\ timers' = Debounced("update", [id |-> id, props |-> props])
  /\ burst' = Burst("update", [id |-> id, props |-> props])
  /\ elapsed' = 0
  /\ calls' = calls + 1
  /\ UNCHANGED <<fork, saves, originalDoc, refreshing, forking,
                 recvVars, userId, sessionToken, canSendRef, tokenDeps,
                 canSendDeps, mounted, urlId, urlSession, sessionStorage, inflight,
                 sent, stableSend>>

\* onNodeUpdate(id, props): state.onNodeUpdate(id, props), then the debounced
\* sendUpdate.current(id, props)
OnNodeUpdate(id, props) ==
  /\ calls < MaxCalls
  /\ ~rendering["A"]
  /\ queue' = Enqueue([type |-> "node:update", id |-> id, props |-> props])
  /\ timers' = Debounced("update", [id |-> id, props |-> props])
  /\ burst' = Burst("update", [id |-> id, props |-> props])
  /\ elapsed' = 0
  /\ calls' = calls + 1
  /\ UNCHANGED <<fork, saves, originalDoc, refreshing, forking,
                 doc, pendingUpdates, cursors, selections, rendering, log, userId,
                 sessionToken, canSendRef, tokenDeps, canSendDeps, mounted, urlId,
                 urlSession, sessionStorage, inflight, sent, stableSend>>

\* presence handlers whose debounce shares one timer with sendUpdate: a call
\* cancels the pending node update
OnPresenceSharedTimer(k, args) ==
  /\ calls < MaxCalls
  /\ ~rendering["A"]
  /\ timers' = [Debounced(k, args) EXCEPT !["update"] = IdleTimer]
  /\ burst' = Burst(k, args)
  /\ calls' = calls + 1
  /\ UNCHANGED <<fork, saves, originalDoc, refreshing, forking,
                 recvVars, userId, sessionToken, canSendRef, tokenDeps,
                 canSendDeps, mounted, urlId, urlSession, sessionStorage, inflight,
                 sent, stableSend, elapsed>>

\* onCursorMove(x, y) and onSelectNodes(ids): only the debounced senders
OnPresence(k, args) ==
  /\ calls < MaxCalls
  /\ ~rendering["A"]
  /\ timers' = Debounced(k, args)
  /\ burst' = Burst(k, args)
  /\ calls' = calls + 1
  /\ UNCHANGED <<fork, saves, originalDoc, refreshing, forking,
                 recvVars, userId, sessionToken, canSendRef, tokenDeps, canSendDeps,
                 mounted, urlId, urlSession, sessionStorage, inflight, sent,
                 stableSend, elapsed>>

OnCursorMove(x, y) == OnPresence("cursor", [x |-> x, y |-> y])

OnSelectNodes(ids) == OnPresence("selection", [ids |-> ids])

\* the timer of kind k is due: the debounced callback runs sendIfAllowed, which
\* is the sendIfAllowed of the first render
Fire(k) ==
  /\ timers[k].armed
  /\ timers[k].left = 0
  /\ ~rendering["A"]
  /\ sent' = SendIfAllowed(DebouncedAction(k, timers[k].args), MountRoom)
  /\ timers' = [timers EXCEPT ![k] = IdleTimer]
  /\ UNCHANGED <<fork, saves, originalDoc, refreshing, forking,
                 recvVars, userId, sessionToken, canSendRef, tokenDeps, canSendDeps,
                 mounted, urlId, urlSession, sessionStorage, inflight, stableSend,
                 calls, burst, elapsed>>

Min(a, b) == IF a < b THEN a ELSE b

\* time passes by dt while React has nothing to do and no timer is due sooner
Tick(dt) ==
  /\ dt > 0
  /\ \E k \in Kinds : timers[k].armed
  /\ \A k \in Kinds : timers[k].armed => timers[k].left >= dt
  /\ queue["A"] = <<>>
  /\ ~EffectsPending
  /\ timers' = [k \in Kinds |->
        IF timers[k].armed THEN [timers[k] EXCEPT !.left = @ - dt] ELSE timers[k]]
  /\ elapsed' = Min(elapsed + dt, UpdateWait)
  /\ UNCHANGED <<fork, saves, originalDoc, refreshing, forking,
                 recvVars, userId, sessionToken, canSendRef, tokenDeps, canSendDeps,
                 mounted, urlId, urlSession, sessionStorage, inflight, sent,
                 stableSend, calls, burst>>

\* onShareSession: a fresh token is stored for doc.id and adopted
OnShareSession(token) ==
  /\ calls < MaxCalls
  /\ ~rendering["A"]
  /\ doc["A"].id # ""
  /\ token # urlSession
  /\ \A id \in DOMAIN sessionStorage : sessionStorage[id] # token
  /\ sessionStorage' = Put(sessionStorage, doc["A"].id, token)
  /\ queue' = Enqueue([type |-> "setSessionToken", token |-> token])
  /\ calls' = calls + 1
  /\ UNCHANGED <<fork, saves, originalDoc, refreshing, forking,
                 doc, pendingUpdates, cursors, selections, rendering, log, userId,
                 sessionToken, canSendRef, tokenDeps, canSendDeps, mounted, urlId,
                 urlSession, inflight, timers, sent, stableSend, burst, elapsed>>

\* useSession() starts to return the session of user u
Login(u) ==
  /\ userId = ""
  /\ ~rendering["A"]
  /\ userId' = u
  /\ UNCHANGED <<fork, saves, originalDoc, refreshing, forking,
                 recvVars, sessionToken, canSendRef, tokenDeps, canSendDeps, mounted,
                 urlId, urlSession, sessionStorage, inflight, timers, sent,
                 stableSend, calls, burst, elapsed>>

\* loadDoc(id) resolves: setDoc(newDoc)
LoadResolve(id) ==
  /\ id \in inflight
  /\ ~rendering["A"]
  /\ inflight' = inflight \ {id}
  /\ queue' = Enqueue([type |-> "setDoc", doc |-> StoredDoc(id)])
  /\ originalDoc' = StoredDoc(id)
  /\ UNCHANGED <<fork, saves, refreshing, forking,
                 doc, pendingUpdates, cursors, selections, rendering, log, userId,
                 sessionToken, canSendRef, tokenDeps, canSendDeps, mounted, urlId,
                 urlSession, sessionStorage, timers, sent, stableSend, calls, burst,
                 elapsed>>

\* loadDoc(id) rejects: the error is logged
LoadReject(id) ==
  /\ id \in inflight
  /\ ~rendering["A"]
  /\ inflight' = inflight \ {id}
  /\ UNCHANGED <<fork, saves, originalDoc, refreshing, forking,
                 recvVars, userId, sessionToken, canSendRef, tokenDeps, canSendDeps,
                 mounted, urlId, urlSession, sessionStorage, timers, sent, stableSend,
                 calls, burst, elapsed>>

\* The postgres_changes subscription of the last [doc.id] effect reports a
\* change of the document's row: loadDoc(doc.id), with the doc.id the
\* subscribing render closed over.
OnDbChange ==
  /\ mounted
  /\ ~rendering["A"]
  /\ tokenDeps[1] \in DocIds
  /\ tokenDeps[1] \notin refreshing
  /\ calls < MaxCalls
  /\ calls' = calls + 1
  /\ refreshing' = refreshing \cup {tokenDeps[1]}
  /\ UNCHANGED <<fork, saves, originalDoc, forking, inflight,
                 recvVars, userId, sessionToken, canSendRef, tokenDeps, canSendDeps,
                 mounted, urlId, urlSession, sessionStorage, timers, sent, stableSend,
                 burst, elapsed>>

\* loadDoc(doc.id) of the subscription callback resolves: setDoc(newDoc)
RefreshResolve(id) ==
  /\ id \in refreshing
  /\ ~rendering["A"]
  /\ refreshing' = refreshing \ {id}
  /\ queue' = Enqueue([type |-> "setDoc", doc |-> StoredDoc(id)])
  /\ UNCHANGED <<fork, saves, originalDoc, forking, inflight,
                 doc, pendingUpdates, cursors, selections, rendering, log, userId,
                 sessionToken, canSendRef, tokenDeps, canSendDeps, mounted, urlId,
                 urlSession, sessionStorage, timers, sent, stableSend, calls, burst,
                 elapsed>>

\* loadDoc(doc.id) of the subscription callback rejects: the error is logged
RefreshReject(id) ==
  /\ id \in refreshing
  /\ ~rendering["A"]
  /\ refreshing' = refreshing \ {id}
  /\ UNCHANGED <<fork, saves, originalDoc, forking, inflight,
                 recvVars, userId, sessionToken, canSendRef, tokenDeps, canSendDeps,
                 mounted, urlId, urlSession, sessionStorage, timers, sent, stableSend,
                 calls, burst, elapsed>>

\* The effects of the last commit run, in the order the hooks declare them:
\* the session-token effect ([doc.id]), the canSendRef effect
\* ([doc.userId, userId, sessionToken]) and, on mount, the load effect.
FlushEffects ==
  /\ ~rendering["A"]
  /\ EffectsPending
  /\ LET id == doc["A"].id
         token == TokenFor(id)
         adopt == (~mounted \/ tokenDeps # <<id>>) /\ id # "" /\ token # ""
         tokenSets == IF adopt
                      THEN <<[action |-> [type |-> "setSessionToken", token |-> token],
                              sender |-> "local"]>>
                      ELSE <<>>
         loadSets == IF mounted THEN <<>>
                     ELSE IF urlId # ""
                     THEN <<[action |-> [type |-> "init:url", id |-> urlId],
                             sender |-> "local"]>>
                     ELSE <<[action |-> [type |-> "init:new", id |-> NewDocId],
                             sender |-> "local"]>>
     IN /\ sessionStorage' = IF adopt THEN Put(sessionStorage, id, token)
                             ELSE sessionStorage
        /\ queue' = [queue EXCEPT !["A"] = @ \o tokenSets \o loadSets]
        /\ tokenDeps' = <<id>>
  /\ canSendRef' = IF ~mounted \/ canSendDeps # CanSendDepsNow
                   THEN CanSend(doc["A"].userId, userId, sessionToken)
                   ELSE canSendRef
  /\ canSendDeps' = CanSendDepsNow
  /\ mounted' = TRUE
  \* the pending-fork effect ([userId, setDoc]) of useInitApp: a payload that
  \* parses is saved as a new document; JSON.parse of a corrupt one throws into
  \* the empty catch block, which leaves localStorage as it is
  /\ fork' = IF (~mounted \/ canSendDeps[2] # userId) /\ userId # ""
             THEN CASE fork = "stored" -> "saving"
                    [] fork = "corrupt" -> "corrupt"
                    [] OTHER -> fork
             ELSE fork
  /\ saves' = IF (~mounted \/ canSendDeps[2] # userId) /\ userId # "" /\ fork = "stored"
              THEN saves \cup {[id |-> NewForkId, viewed |-> doc["A"].id,
                                owner |-> doc["A"].userId, by |-> userId,
                                via |-> "pending"]}
              ELSE saves
  /\ UNCHANGED <<originalDoc, refreshing, forking, doc, pendingUpdates, cursors, selections, rendering, log, userId,
                 sessionToken, urlId, urlSession, inflight, timers, sent, stableSend,
                 calls, burst, elapsed>>

\* React renders the local client; the effects of the previous commit have run
Render ==
  /\ rendering["A"] \/ ~EffectsPending
  /\ RunUpdater("A")

NextSend ==
  \/ \E a \in LocalEdits : OnEdit(a)
  \/ \E u \in UpdateArgs : OnNodeUpdate(u.id, u.props)
  \/ \E c \in CursorArgs : OnCursorMove(c.x, c.y)
  \/ \E s \in SelectionArgs : OnSelectNodes(s.ids)
  \/ \E k \in Kinds : Fire(k)
  \/ \E dt \in {Quantum} \cup {timers[k].left : k \in Kinds} : Tick(dt)
  \/ \E t \in ShareTokens : OnShareSession(t)
  \/ \E u \in Users : Login(u)
  \/ \E id \in DocIds : LoadResolve(id)
  \/ \E id \in DocIds : LoadReject(id)
  \/ FlushEffects
  \/ Render

SpecSend == InitSend /\ [][NextSend]_vars

\* a page opened on the URL of the stored document d1, without a session
InitStored ==
  /\ InitCommon
  /\ sessionStorage = EmptyObj
  /\ urlId = "d1"
  /\ urlSession = ""
  /\ stableSend = FALSE
  /\ fork = "none"

\* React eventually renders and flushes effects, time passes, and a due timer
\* runs its callback
SpecSendFair ==
  /\ InitStored
  /\ [][NextSend]_vars
  /\ WF_vars(Render)
  /\ WF_vars(FlushEffects)
  /\ WF_vars(\E dt \in {Quantum} \cup {timers[k].left : k \in Kinds} : Tick(dt))
  /\ \A k \in Kinds : WF_vars(Fire(k))

\* ------------------------------------------ loading and forking while joined

\* saveDoc(newDoc, userId) of the pending fork resolves: setDoc(newDoc) and
\* localStorage.removeItem(PENDING_FORK_KEY)
SaveResolve ==
  /\ fork = "saving"
  /\ ~rendering["A"]
  /\ fork' = "none"
  /\ queue' = Enqueue([type |-> "setDoc", doc |-> ForkedDoc(userId)])
  /\ originalDoc' = ForkedDoc(userId)
  /\ UNCHANGED <<saves, refreshing, forking, doc, pendingUpdates, cursors, selections, rendering, log, userId,
                 sessionToken, canSendRef, tokenDeps, canSendDeps, mounted, urlId,
                 urlSession, sessionStorage, inflight, timers, sent, stableSend,
                 calls, burst, elapsed>>

\* saveDoc(newDoc, userId) of the pending fork rejects: the error is logged
SaveReject ==
  /\ fork = "saving"
  /\ ~rendering["A"]
  /\ fork' = "failed"
  /\ UNCHANGED <<saves, originalDoc, refreshing, forking, recvVars, userId, sessionToken, canSendRef, tokenDeps, canSendDeps,
                 mounted, urlId, urlSession, sessionStorage, inflight, timers, sent,
                 stableSend, calls, burst, elapsed>>

\* the actions peers publish while the local client loads or forks
LoadMessages ==
  {[action |-> a, sender |-> "s1"] :
     a \in {[type |-> "node:update", id |-> "n1", props |-> [x |-> 1]],
            [type |-> "node:update", id |-> "n2", props |-> [x |-> 1]],
            [type |-> "node:create", node |-> [id |-> "n2", x |-> 0, y |-> 0]],
            [type |-> "node:delete", id |-> "n1"]}}

\* the channel of the room the client has joined delivers m
Receive(m) ==
  /\ RoomId # ""
  /\ Deliver({"A"}, m)

\* a page opened on any URL, with or without a payload (well-formed or
\* corrupt) kept under PENDING_FORK_KEY for after sign-in, in a tab whose
\* sessionStorage may hold the token of an earlier visit to d1
InitLoad ==
  /\ InitCommon
  /\ sessionStorage \in {EmptyObj, [id \in {"d1"} |-> "tk2"]}
  /\ urlId \in {"", "d1"}
  /\ urlSession \in {"", "tk1"}
  /\ stableSend = FALSE
  /\ fork \in {"none", "stored", "corrupt"}

NextLoad ==
  \/ \E m \in LoadMessages : Receive(m)
  \/ \E u \in Users : Login(u)
  \/ \E id \in DocIds : LoadResolve(id)
  \/ \E id \in DocIds : LoadReject(id)
  \/ SaveResolve
  \/ SaveReject
  \/ FlushEffects
  \/ Render

SpecLoad == InitLoad /\ [][NextLoad]_vars

\* loading, refreshing on database changes and forking, with no peer publishing
NextRefresh ==
  \/ \E u \in Users : Login(u)
  \/ \E id \in DocIds : LoadResolve(id)
  \/ \E id \in DocIds : LoadReject(id)
  \/ OnDbChange
  \/ \E id \in DocIds : RefreshResolve(id)
  \/ \E id \in DocIds : RefreshReject(id)
  \/ SaveResolve
  \/ SaveReject
  \/ FlushEffects
  \/ Render

SpecRefresh == InitLoad /\ [][NextRefresh]_vars

\* onFork(): without a user id it returns; otherwise it queues the updater
\* that claims the document for the user and saves it
OnFork ==
  /\ userId # ""
  /\ calls < MaxCalls
  /\ ~rendering["A"]
  /\ queue' = Enqueue([type |-> "onFork", userId |-> userId])
  /\ calls' = calls + 1
  /\ UNCHANGED <<fork, saves, originalDoc, refreshing, forking,
                 doc, pendingUpdates, cursors, selections, rendering, log, userId,
                 sessionToken, canSendRef, tokenDeps, canSendDeps, mounted, urlId,
                 urlSession, sessionStorage, inflight, timers, sent, stableSend,
                 burst, elapsed>>

\* saveDoc(newDoc, userId) of onFork resolves:
\* originalDoc.current = JSON.stringify(newDoc)
ForkSaveResolve(d) ==
  /\ d \in forking
  /\ forking' = forking \ {d}
  /\ originalDoc' = d
  /\ UNCHANGED <<fork, saves, refreshing, recvVars, userId, sessionToken, canSendRef,
                 tokenDeps, canSendDeps, mounted, urlId, urlSession, sessionStorage,
                 inflight, timers, sent, stableSend, calls, burst, elapsed>>

\* saveDoc(newDoc, userId) of onFork rejects: the error is logged
ForkSaveReject(d) ==
  /\ d \in forking
  /\ forking' = forking \ {d}
  /\ UNCHANGED <<fork, saves, originalDoc, refreshing, recvVars, userId, sessionToken,
                 canSendRef, tokenDeps, canSendDeps, mounted, urlId, urlSession,
                 sessionStorage, inflight, timers, sent, stableSend, calls, burst,
                 elapsed>>

\* a save of the document with id target, issued by the handler named via
SaveOf(target, via) ==
  [id |-> target, viewed |-> doc["A"].id, owner |-> doc["A"].userId, by |-> userId,
   via |-> via]

\* the beforeunload handler keeps the page: the owner's changed document is
\* saved, a signed-in non-owner who accepts the prompt saves a fork under a
\* new id
UnloadStay(shouldFork) ==
  LET d == doc["A"]
      changed == d # originalDoc
  IN /\ saves' = IF d.userId = userId
                 THEN IF d.id # "" /\ d.title # "" /\ changed /\ userId # ""
                      THEN saves \cup {SaveOf(d.id, "unload")} ELSE saves
                 ELSE IF changed /\ shouldFork
                      THEN saves \cup {SaveOf(UnloadForkId, "unloadFork")} ELSE saves
     /\ UNCHANGED <<fork, originalDoc, refreshing, forking, recvVars, userId,
                    sessionToken, canSendRef, tokenDeps, canSendDeps, mounted, urlId,
                    urlSession, sessionStorage, inflight, timers, sent, stableSend,
                    burst, elapsed>>

\* the beforeunload handler of an anonymous non-owner who accepts the prompt:
\* the document is stored under PENDING_FORK_KEY and the page is left for '/',
\* which starts as a new page of the same tab
UnloadLeave ==
  /\ doc["A"].userId # userId
  /\ doc["A"] # originalDoc
  /\ userId = ""
  /\ fork' = "stored"
  /\ doc' = [doc EXCEPT !["A"] = EmptyDoc]
  /\ pendingUpdates' = [pendingUpdates EXCEPT !["A"] = EmptyObj]
  /\ cursors' = [cursors EXCEPT !["A"] = EmptyObj]
  /\ selections' = [selections EXCEPT !["A"] = EmptyObj]
  /\ queue' = [queue EXCEPT !["A"] = <<>>]
  /\ sessionToken' = ""
  /\ canSendRef' = TRUE
  /\ tokenDeps' = <<"">>
  /\ canSendDeps' = <<"", "", "">>
  /\ mounted' = FALSE
  /\ urlId' = ""
  /\ urlSession' = ""
  /\ inflight' = {}
  /\ refreshing' = {}
  /\ forking' = {}
  /\ originalDoc' = EmptyDoc
  /\ timers' = [k \in Kinds |-> IdleTimer]
  /\ burst' = [k \in Kinds |-> <<>>]
  /\ elapsed' = 0
  /\ UNCHANGED <<rendering, log, userId, sessionStorage, sent, stableSend, saves>>

\* the callback of useBeforeUnload, with the answer to window.confirm
OnBeforeUnload(shouldFork) ==
  /\ calls < MaxCalls
  /\ ~rendering["A"]
  /\ calls' = calls + 1
  /\ IF doc["A"].userId # userId /\ doc["A"] # originalDoc /\ shouldFork /\ userId = ""
     THEN UnloadLeave
     ELSE UnloadStay(shouldFork)

\* a page opened on any URL by a user who may fork what they view
InitFork ==
  /\ InitCommon
  /\ sessionStorage = EmptyObj
  /\ urlId \in {"", "d1", "d2"}
  /\ urlSession = ""
  /\ stableSend = FALSE
  /\ fork \in {"none", "stored"}

NextFork ==
  \/ \E a \in LocalEdits : OnEdit(a)
  \/ \E u \in Users : Login(u)
  \/ \E id \in DocIds : LoadResolve(id)
  \/ \E id \in DocIds : LoadReject(id)
  \/ OnFork
  \/ \E d \in forking : ForkSaveResolve(d)
  \/ \E d \in forking : ForkSaveReject(d)
  \/ \E b \in BOOLEAN : OnBeforeUnload(b)
  \/ SaveResolve
  \/ SaveReject
  \/ FlushEffects
  \/ Render

SpecFork == InitFork /\ [][NextFork]_vars

\* ======================================================================
\* Properties of the reducer bridge
\* ======================================================================

\* client c has run every updater it queued
Quiescent(c) == queue[c] = <<>>

IsCreate(i, n) == log[i].action.type = "node:create" /\ log[i].action.node.id = n
IsUpdate(i, n) == log[i].action.type = "node:update" /\ log[i].action.id = n
IsDelete(i, n) == log[i].action.type = "node:delete" /\ log[i].action.id = n

\* a node with id n is in the document once the first i delivered actions are applied
PresentAt(i, n) ==
  \E p \in 1..i : IsCreate(p, n) /\ \A q \in (p + 1)..i : ~IsDelete(q, n)

\* the nodes of client c's document that have id n
NodesWithId(c, n) == {i \in 1..Len(doc[c].nodes) : doc[c].nodes[i].id = n}

\* C1 (convergence): two clients that started from the same document and an
\* empty buffer and applied the same ordered actions hold equal documents
\* once both have run all their updaters.
C1_Convergence ==
  (Quiescent("A") /\ Quiescent("B")) => doc["A"] = doc["B"]

\* C2 (pending-update resolution): when the delivered actions end with one or
\* more node:update for an absent id n followed by node:create for n, the
\* created node carries every buffered field (the latest buffered value of
\* each), and the buffer holds no fragment for n.
C2_PendingResolution ==
  \A n \in NodeIds : \A j \in 1..(Len(log) - 1) :
    ( /\ Quiescent("A")
      /\ IsCreate(Len(log), n)
      /\ \A i \in j..(Len(log) - 1) : IsUpdate(i, n)
      /\ ~PresentAt(j - 1, n) )
    => /\ n \notin DOMAIN pendingUpdates["A"]
       /\ Cardinality(NodesWithId("A", n)) = 1
       /\ \A k \in NodesWithId("A", n) : \A i \in j..(Len(log) - 1) :
            \A f \in DOMAIN log[i].action.props :
              (\A i2 \in (i + 1)..(Len(log) - 1) : f \notin DOMAIN log[i2].action.props)
              => /\ f \in DOMAIN doc["A"].nodes[k]
                 /\ doc["A"].nodes[k][f] = log[i].action.props[f]

\* a buffered update has overridden a field of the node created after it
C2_Witness ==
  /\ Quiescent("A")
  /\ Len(log) = 3
  /\ IsUpdate(1, "n1") /\ IsUpdate(2, "n1") /\ IsCreate(3, "n1")
  /\ log[1].action.props # log[2].action.props
  /\ Len(doc["A"].nodes) = 1
  /\ doc["A"].nodes[1].x # log[3].action.node.x

\* C3 (delete discards pending): after node:update(n), node:delete(n),
\* node:create(n) delivered in this order with n absent, the created node is
\* the node of the create action, with no field of the update, and the buffer
\* holds no fragment for n.
C3_DeleteDiscardsPending ==
  \A n \in NodeIds :
    ( /\ Quiescent("A")
      /\ Len(log) >= 3
      /\ IsUpdate(Len(log) - 2, n)
      /\ IsDelete(Len(log) - 1, n)
      /\ IsCreate(Len(log), n)
      /\ ~PresentAt(Len(log) - 3, n) )
    => /\ n \notin DOMAIN pendingUpdates["A"]
       /\ \A k \in NodesWithId("A", n) : doc["A"].nodes[k] = log[Len(log)].action.node

\* C4 (cascade delete): the step in which a client runs the updater of
\* node:delete(n) leaves no node n and no edge from or to n, and keeps every
\* other node and edge, in order, and the rest of the document.
C4_CascadeDelete ==
  [][\A c \in Clients :
       ( /\ queue[c] # <<>>
         /\ queue'[c] = Tail(queue[c])
         /\ Head(queue[c]).action.type = "node:delete" )
       => LET n == Head(queue[c]).action.id
              other(v) == v.id # n
              untouched(e) == e.fromNode # n /\ e.toNode # n
          IN /\ \A i \in 1..Len(doc'[c].nodes) : doc'[c].nodes[i].id # n
             /\ \A i \in 1..Len(doc'[c].edges) :
                  doc'[c].edges[i].fromNode # n /\ doc'[c].edges[i].toNode # n
             /\ doc'[c].nodes = SelectSeq(doc[c].nodes, other)
             /\ doc'[c].edges = SelectSeq(doc[c].edges, untouched)
             /\ doc'[c].title = doc[c].title
             /\ doc'[c].backgroundColor = doc[c].backgroundColor
             /\ doc'[c].id = doc[c].id
             /\ doc'[c].userId = doc[c].userId
    ]_vars

\* a delete has removed an edge into the deleted node and kept another edge
C4_Witness ==
  /\ Quiescent("A")
  /\ Len(log) = 3
  /\ log[1].action.type = "edge:create" /\ log[1].action.edge.toNode = "n1"
  /\ log[2].action.type = "edge:create" /\ log[2].action.edge.fromNode = "n2"
  /\ log[2].action.edge.toNode = "n2"
  /\ IsDelete(3, "n1")
  /\ doc["A"].edges = <<log[2].action.edge>>

\* the endpoints of the edge created by delivered action i were created before it
EndpointsCreatedBefore(i) ==
  \A n \in {log[i].action.edge.fromNode, log[i].action.edge.toNode} :
    \E p \in 1..(i - 1) : IsCreate(p, n)

\* C11 (edge referential integrity): from the empty document, once every
\* delivered action is processed, and every delivered edge:create connects
\* nodes whose creation was delivered before it, each edge's fromNode and
\* toNode are ids of nodes in nodes.
C11_EdgeIntegrity ==
  ( /\ Quiescent("A")
    /\ \A i \in 1..Len(log) :
         log[i].action.type = "edge:create" => EndpointsCreatedBefore(i) )
  => \A i \in 1..Len(doc["A"].edges) :
       /\ NodesWithId("A", doc["A"].edges[i].fromNode) # {}
       /\ NodesWithId("A", doc["A"].edges[i].toNode) # {}

IsPresence(a) == a.type \in {"cursor:move", "node:select"}

\* the entries of the senders other than s
Others(f, s) == [t \in DOMAIN f \ {s} |-> f[t]]

\* client c runs the updater at the head of its queue in this step
RunsHead(c) == queue[c] # <<>> /\ queue'[c] = Tail(queue[c])

\* client c handles a delivered message with apply() in this step
Applies(c) == queue'[c] # queue[c] /\ queue'[c] = Append(queue[c], log'[Len(log')])

\* C12 (presence actions are framed): apply() of cursor:move or node:select
\* from sender S, and the updaters it queues, leave the document and the
\* pending-update buffer unchanged and leave the cursor and selection entries
\* of every other sender unchanged.
C12_PresenceFramed ==
  [][\A c \in Clients :
       /\ (log' # log /\ Applies(c) /\ IsPresence(log'[Len(log')].action))
          => /\ doc'[c] = doc[c]
             /\ pendingUpdates'[c] = pendingUpdates[c]
             /\ cursors'[c] = cursors[c]
             /\ selections'[c] = selections[c]
       /\ (RunsHead(c) /\ IsPresence(Head(queue[c]).action))
          => LET S == Head(queue[c]).sender
             IN /\ doc'[c] = doc[c]
                /\ pendingUpdates'[c] = pendingUpdates[c]
                /\ Others(cursors'[c], S) = Others(cursors[c], S)
                /\ Others(selections'[c], S) = Others(selections[c], S)
    ]_vars

\* a document with a node and a buffered fragment has taken presence actions
\* of two senders, each keeping the other's entry
C12_Witness ==
  /\ Quiescent("A")
  /\ Len(log) = 3
  /\ IsUpdate(1, "n1")
  /\ log[2].action.type = "cursor:move" /\ log[2].sender = "s2"
  /\ log[3].action.type = "node:select" /\ log[3].sender = "s1"
  /\ "n1" \in DOMAIN pendingUpdates["A"]
  /\ DOMAIN cursors["A"] = {"s1", "s2"}
  /\ cursors["A"]["s2"].x = 1
  /\ DOMAIN selections["A"] = {"s1"}

\* the action kinds the contract calls idempotent
IdempotentKinds ==
  {"node:update", "node:delete", "edge:delete", "space:background", "space:title",
   "cursor:move", "node:select"}

\* C13 (idempotence): when a client has applied an action of a kind other
\* than node:create and edge:create, applying the same action from the same
\* sender once more (the synchronous part of apply() and its updaters) gives
\* the same document, pending-update buffer, cursors and selections.
C13_Idempotence ==
  [][\A c \in Clients :
       ( /\ RunsHead(c)
         /\ Head(queue[c]).sender # "local"
         /\ Head(queue[c]).action.type \in IdempotentKinds )
       => LET m == Head(queue[c])
              again == DocUpdater(m.action, doc'[c],
                                  ApplySync(m.action, pendingUpdates'[c]))
          IN /\ again.doc = doc'[c]
             /\ again.pending = pendingUpdates'[c]
             /\ CursorUpdater(m.action, m.sender, cursors'[c]) = cursors'[c]
             /\ SelectionUpdater(m.action, m.sender, selections'[c]) = selections'[c]
    ]_vars

\* C14 (stale references are absorbed): running the updater of a node:update
\* whose id is not in nodes leaves the document unchanged and changes only the
\* buffered fragment of that id; running the updater of a node:delete whose id
\* is not in nodes leaves nodes unchanged.
C14_StaleAbsorbed ==
  [][\A c \in Clients :
       ( /\ RunsHead(c)
         /\ Head(queue[c]).sender # "local"
         /\ Head(queue[c]).action.type \in {"node:update", "node:delete"}
         /\ NodesWithId(c, Head(queue[c]).action.id) = {} )
       => LET a == Head(queue[c]).action
          IN /\ doc'[c].nodes = doc[c].nodes
             /\ a.type = "node:update"
                => /\ doc'[c] = doc[c]
                   /\ a.id \in DOMAIN pendingUpdates'[c]
                   /\ Others(pendingUpdates'[c], a.id) = Others(pendingUpdates[c], a.id)
    ]_vars

\* a delete and an update for an unknown id were absorbed: the document is as it
\* was and the update's props are buffered
C14_Witness ==
  /\ Quiescent("A")
  /\ Len(log) = 3
  /\ IsCreate(1, "n2")
  /\ IsDelete(2, "n1")
  /\ IsUpdate(3, "n1")
  /\ doc["A"].nodes = <<log[1].action.node>>
  /\ DOMAIN pendingUpdates["A"] = {"n1"}
  /\ pendingUpdates["A"]["n1"] = log[3].action.props

\* C16 (buffer lifetime): when the in-memory document is replaced by a
\* document with a different id, the pending-update buffer holds no fragment
\* afterwards: nothing recorded for the previous document is left to be merged
\* into a node of the new one.
C16_BufferLifetime ==
  [][(doc["A"].id # "" /\ doc'["A"].id # doc["A"].id)
       => pendingUpdates'["A"] = EmptyObj]_vars

\* object new is object old with the fields of props written over it
MergedInto(new, old, props) ==
  /\ DOMAIN new = DOMAIN old \cup DOMAIN props
  /\ \A f \in DOMAIN props : new[f] = props[f]
  /\ \A f \in DOMAIN old \ DOMAIN props : new[f] = old[f]

\* C18 (last-writer-wins merge): running the updater of a delivered
\* node:update for an id not in nodes writes the props over the fragment
\* buffered for that id, keeping the fragment's other fields; for an id in
\* nodes it writes the props over that node, keeping the node's other fields
\* and every other node, and leaves the buffer unchanged.
C18_BufferMerge ==
  [][\A c \in Clients :
       ( /\ RunsHead(c)
         /\ Head(queue[c]).sender # "local"
         /\ Head(queue[c]).action.type = "node:update" )
       => LET a == Head(queue[c]).action
              i == FindNode(doc[c].nodes, a.id)
              old == IF a.id \in DOMAIN pendingUpdates[c]
                     THEN pendingUpdates[c][a.id] ELSE EmptyObj
          IN IF i = 0
             THEN /\ a.id \in DOMAIN pendingUpdates'[c]
                  /\ MergedInto(pendingUpdates'[c][a.id], old, a.props)
             ELSE /\ pendingUpdates'[c] = pendingUpdates[c]
                  /\ Len(doc'[c].nodes) = Len(doc[c].nodes)
                  /\ MergedInto(doc'[c].nodes[i], doc[c].nodes[i], a.props)
                  /\ \A j \in 1..Len(doc[c].nodes) :
                       j # i => doc'[c].nodes[j] = doc[c].nodes[j]
    ]_vars

\* two buffered updates for an absent id: the later one's field replaced the
\* earlier value and the field only the earlier one set was kept
C18_Witness ==
  /\ Quiescent("A")
  /\ Len(log) = 2
  /\ IsUpdate(1, "n1") /\ log[1].action.props = [x |-> 2, y |-> 2]
  /\ IsUpdate(2, "n1") /\ log[2].action.props = [x |-> 1]
  /\ doc["A"].nodes = <<>>
  /\ pendingUpdates["A"] = [n \in {"n1"} |-> [x |-> 1, y |-> 2]]

\* the edges of es, in order, that do not lead from node from to node to
RECURSIVE EdgesOtherThan(_, _, _)
EdgesOtherThan(es, from, to) ==
  IF es = <<>> THEN <<>>
  ELSE IF Head(es).fromNode = from /\ Head(es).toNode = to
       THEN EdgesOtherThan(Tail(es), from, to)
       ELSE <<Head(es)>> \o EdgesOtherThan(Tail(es), from, to)

\* C21 (edge:delete is framed): running the updater of edge:delete{from,to}
\* removes every edge leading from from to to, however many there are, and
\* keeps, in order, every other edge, the reverse-direction ones included; the
\* nodes, the other fields of the document and the buffer are unchanged.
C21_EdgeDelete ==
  [][\A c \in Clients :
       (RunsHead(c) /\ Head(queue[c]).action.type = "edge:delete")
       => LET a == Head(queue[c]).action
          IN /\ doc'[c] = [doc[c] EXCEPT !.edges = EdgesOtherThan(@, a.from, a.to)]
             /\ \A i \in 1..Len(doc'[c].edges) :
                  ~(doc'[c].edges[i].fromNode = a.from /\ doc'[c].edges[i].toNode = a.to)
             /\ \A i \in 1..Len(doc[c].edges) :
                  (doc[c].edges[i].fromNode = a.to /\ doc[c].edges[i].toNode = a.from
                     /\ a.from # a.to)
                  => \E j \in 1..Len(doc'[c].edges) : doc'[c].edges[j] = doc[c].edges[i]
             /\ pendingUpdates'[c] = pendingUpdates[c]
    ]_vars

\* an edge n1 -> n2 and an edge n2 -> n1 were created and edge:delete n1 -> n2
\* ran: the reverse edge alone is left
C21_Witness ==
  /\ Quiescent("A")
  /\ Len(log) = 3
  /\ log[1].action.type = "edge:create" /\ log[1].action.edge.fromNode = "n1"
  /\ log[1].action.edge.toNode = "n2"
  /\ log[2].action.type = "edge:create" /\ log[2].action.edge.fromNode = "n2"
  /\ log[2].action.edge.toNode = "n1"
  /\ log[3].action = [type |-> "edge:delete", from |-> "n1", to |-> "n2"]
  /\ doc["A"].edges = <<log[2].action.edge>>

\* ------------------------------------------------- claims on the sending side

\* the loaded document has an owner other than the local identity and no
\* session token is established
Gated ==
  /\ doc["A"].userId # ""
  /\ doc["A"].userId # userId
  /\ sessionToken = ""

\* C5: while the document has an owner different from the local identity and
\* no session token is established, no step publishes an action: neither a
\* local edit at once nor a debounce timer later.
C5_SendGating == [][Gated => sent' = sent]_vars

\* the room of document id with token established (none: "")
ExpectedRoom(id, token) == IF token = "" THEN id ELSE id \o ":" \o token

\* C6: a step that establishes session token T for the loaded document D moves
\* the active room from "D" to "D:T", and a step taken with a token established
\* publishes nothing to the unscoped room "D".
C6_RoomSwitch ==
  [][/\ (sessionToken = "" /\ sessionToken' # "" /\ doc["A"].id # "")
        => (RoomId = doc["A"].id /\ RoomId' = doc["A"].id \o ":" \o sessionToken')
     /\ (sessionToken # "" /\ doc["A"].id # "" /\ sent' # sent)
        => sent'[Len(sent')].room # doc["A"].id]_vars

\* the last call of kind k in its burst
LastCall(k) == burst[k][Len(burst[k])]

UpdateCount(s) == Cardinality({i \in 1..Len(s) : s[i].action.type = "node:update"})

SameId(b) == \A i \in 1..Len(b) : b[i].id = b[1].id

\* the sendUpdate timer runs its callback in this step
FiresUpdate == timers["update"].armed /\ ~timers'["update"].armed

\* C7: a node:update is published only by the step in which the sendUpdate
\* timer runs out, UpdateWait after the last onNodeUpdate call; when the burst
\* had k >= 2 calls for one node id and canSendRef.current is true, that step
\* publishes exactly one node:update, with the props of the last call.
C7_DebounceCollapse ==
  [][/\ UpdateCount(sent') # UpdateCount(sent) => FiresUpdate
     /\ (/\ FiresUpdate
         /\ Len(burst["update"]) >= 2
         /\ SameId(burst["update"])
         /\ canSendRef)
        => /\ elapsed = UpdateWait
           /\ Len(sent') = Len(sent) + 1
           /\ sent'[Len(sent')].action =
                [type |-> "node:update", id |-> burst["update"][1].id,
                 props |-> LastCall("update").props]]_vars

\* a burst of two calls with different props has collapsed into one node:update
\* with the second call's props
C7_Witness ==
  /\ ~timers["update"].armed
  /\ Len(burst["update"]) = 2
  /\ burst["update"][1].props # burst["update"][2].props
  /\ UpdateCount(sent) = 1
  /\ sent[Len(sent)].action =
       [type |-> "node:update", id |-> "n1", props |-> burst["update"][2].props]

\* the debounce timer of kind k runs its callback in this step
Fires(k) == timers[k].armed /\ ~timers'[k].armed

\* the action that carries the value supplied by the last call of kind k
LastValueAction(k) ==
  CASE k = "update" -> [type |-> "node:update", id |-> LastCall(k).id,
                        props |-> LastCall(k).props]
    [] k = "cursor" -> [type |-> "cursor:move", x |-> LastCall(k).x,
                        y |-> LastCall(k).y, color |-> ColorOf("s1")]
    [] k = "selection" -> [type |-> "node:select", ids |-> LastCall(k).ids,
                           color |-> ColorOf("s1")]

\* C8: for each debounced kind, once the local handler calls have stopped an
\* armed timer eventually runs out, and the step in which it runs out with
\* canSendRef.current true publishes the action of the last call's arguments.
C8_FinalValueSent ==
  /\ \A k \in Kinds : (timers[k].armed /\ calls = MaxCalls) ~> ~timers[k].armed
  /\ [][\A k \in Kinds : (Fires(k) /\ canSendRef)
          => /\ Len(sent') = Len(sent) + 1
             /\ sent'[Len(sent')].action = LastValueAction(k)]_vars

\* the calls have stopped; a burst of two node updates was published with its
\* last props and a cursor position was published too
C8_Witness ==
  /\ calls = MaxCalls
  /\ \A k \in Kinds : ~timers[k].armed
  /\ Len(burst["update"]) = 2
  /\ burst["update"][1].props # burst["update"][2].props
  /\ \E i \in 1..Len(sent) : sent[i].action.type = "cursor:move"
  /\ \E i \in 1..Len(sent) :
       sent[i].action =
         [type |-> "node:update", id |-> "n1", props |-> burst["update"][2].props]

\* C15 (no stale-room send): every action is published to the room the client
\* is in at the time of the send, never to a room it was in before; debounced
\* sends scheduled or captured before a room switch included.
C15_NoStaleRoomSend ==
  [][sent' # sent => sent'[Len(sent')].room = RoomId]_vars

\* onNodeUpdate is called in this step
CallsUpdate == calls' = calls + 1 /\ burst'["update"] # burst["update"]

\* C17 (local mutation is not debounced): every onNodeUpdate(id, props) call
\* queues the local document update in the step of the call, whatever the
\* state of the sendUpdate timer and without publishing; when React runs that
\* update on a document holding the node, the node takes the props.
C17_LocalNotDebounced ==
  [][/\ CallsUpdate
        => LET call == burst'["update"][Len(burst'["update"])]
           IN /\ queue'["A"] =
                   Append(queue["A"],
                          [action |-> [type |-> "node:update", id |-> call.id,
                                       props |-> call.props],
                           sender |-> "local"])
              /\ sent' = sent
     /\ ( /\ RunsHead("A")
          /\ Head(queue["A"]).sender = "local"
          /\ Head(queue["A"]).action.type = "node:update"
          /\ NodesWithId("A", Head(queue["A"]).action.id) # {} )
        => LET a == Head(queue["A"]).action
               i == FindNode(doc["A"].nodes, a.id)
           IN doc'["A"].nodes[i] = Assign(doc["A"].nodes[i], a.props)
    ]_vars

\* a burst of two calls left both calls' fields in the local node while one
\* node:update, with the last call's props only, was published
C17_Witness ==
  /\ queue["A"] = <<>>
  /\ ~timers["update"].armed
  /\ burst["update"] = <<[id |-> "n1", props |-> [x |-> 2, y |-> 2]],
                         [id |-> "n1", props |-> [x |-> 1]]>>
  /\ UpdateCount(sent) = 1
  /\ \E i \in 1..Len(sent) :
       sent[i].action = [type |-> "node:update", id |-> "n1", props |-> [x |-> 1]]
  /\ doc["A"].nodes = <<[id |-> "n1", x |-> 1, y |-> 2]>>

\* C19 (debounce kinds are independent): in a step without a call of kind j,
\* a pending timer of kind j keeps its arguments and is neither cancelled nor
\* restarted: it stays as it is, or time passes for it, or it is due and runs.
C19_KindsIndependent ==
  [][\A j \in Kinds :
       (burst'[j] = burst[j] /\ timers[j].armed)
       => \/ timers'[j] = timers[j]
          \/ /\ timers'[j].armed
             /\ timers'[j].args = timers[j].args
             /\ timers'[j].left < timers[j].left
          \/ /\ timers[j].left = 0
             /\ ~timers'[j].armed
    ]_vars

\* a cursor call was made while a node update was pending, and the update's
\* timer kept running
C19_Witness ==
  /\ timers["update"].armed
  /\ timers["update"].left < UpdateWait
  /\ timers["update"].args = LastCall("update")
  /\ timers["cursor"].armed
  /\ timers["cursor"].left = CursorWait

\* the document of a peer that applies the published actions s, in order, to
\* document d with pending-update buffer pend
RECURSIVE PeerApply(_, _, _)
PeerApply(s, d, pend) ==
  IF s = <<>> THEN d
  ELSE LET a == Head(s).action
           r == DocUpdater(a, d, ApplySync(a, pend))
       IN PeerApply(Tail(s), r.doc, r.pending)

\* node with the props of the calls b written over it, in order
RECURSIVE AfterCalls(_, _)
AfterCalls(node, b) ==
  IF b = <<>> THEN node ELSE AfterCalls(Assign(node, Head(b).props), Tail(b))

\* the local client loaded d1 and then made one burst of onNodeUpdate calls on
\* node n1, every call of which is in the local document, and the burst was
\* published
BurstPublished ==
  /\ doc["A"].id = "d1"
  /\ queue["A"] = <<>>
  /\ ~timers["update"].armed
  /\ Len(burst["update"]) >= 2
  /\ calls = Len(burst["update"])
  /\ SameId(burst["update"])
  /\ UpdateCount(sent) = 1
  /\ doc["A"].nodes = <<AfterCalls(StoredDoc("d1").nodes[1], burst["update"])>>

\* C20 (the outbound stream preserves the final state): after a published
\* burst of onNodeUpdate calls, a peer that held the same document and applies
\* every published action has, for every field a call of the burst set, the
\* value the local node has.
C20_FinalStatePreserved ==
  BurstPublished
  => LET peer == PeerApply(sent, StoredDoc("d1"), EmptyObj)
         local == doc["A"].nodes[1]
         j == FindNode(peer.nodes, local.id)
     IN /\ j # 0
        /\ \A i \in 1..Len(burst["update"]) :
             \A f \in DOMAIN burst["update"][i].props :
               peer.nodes[j][f] = local[f]

\* C9: the room joined for document D is "D" with no session token established
\* and "D:T" with token T.
C9_RoomIdentity ==
  doc["A"].id # "" => RoomId = ExpectedRoom(doc["A"].id, sessionToken)

\* C10 (no duplicate entities): node ids are pairwise distinct within nodes
\* and edge ids are pairwise distinct within edges.
C10_NoDuplicateEntities ==
  \A c \in Clients :
    /\ \A i, j \in 1..Len(doc[c].nodes) :
         doc[c].nodes[i].id = doc[c].nodes[j].id => i = j
    /\ \A i, j \in 1..Len(doc[c].edges) :
         doc[c].edges[i].id = doc[c].edges[j].id => i = j


\* ------------------------------------------- claims on loading and forking

\* the pending-fork effect of useInitApp runs in this step
ForkEffectRuns ==
  /\ mounted' /\ tokenDeps' = <<doc["A"].id>> /\ canSendDeps' = CanSendDepsNow
  /\ ~mounted \/ canSendDeps[2] # userId

\* C22 (corrupt pending fork): when the pending-fork effect runs for a
\* signed-in user while the stored payload cannot be parsed, no save is
\* started, the document is unchanged and the payload is removed from the
\* store.
C22_CorruptForkDiscarded ==
  [][(ForkEffectRuns /\ userId # "" /\ fork = "corrupt")
       => /\ fork' = "none"
          /\ doc' = doc
    ]_vars

\* C23 (the token belongs to the document): once the effects of the last
\* commit have run and no state update is queued, a non-empty sessionToken is
\* the URL's session parameter or the token stored for the current doc.id.
C23_TokenOfCurrentDoc ==
  ( /\ ~EffectsPending
    /\ ~rendering["A"]
    /\ queue["A"] = <<>>
    /\ sessionToken # "" )
  => \/ urlSession = sessionToken
     \/ /\ doc["A"].id \in DOMAIN sessionStorage
        /\ sessionStorage[doc["A"].id] = sessionToken

\* the updater at the head of the queue is the setDoc(newDoc) of a resolved
\* loadDoc(id)
LoadedDocAtHead(id) ==
  /\ queue["A"] # <<>>
  /\ Head(queue["A"]).sender = "local"
  /\ Head(queue["A"]).action = [type |-> "setDoc", doc |-> StoredDoc(id)]

\* C24 (late load responses): when the setDoc(newDoc) of a loadDoc(id) runs
\* while the document has another id, the document keeps that id: the
\* document of the old id is not installed.
C24_NoLateInstall ==
  [][\A id \in DocIds :
       (RunsHead("A") /\ LoadedDocAtHead(id) /\ doc["A"].id # id)
       => doc'["A"].id = doc["A"].id
    ]_vars

\* C25 (a non-owner never saves over the viewed document): every save issued
\* through onFork, the unload fork prompt or the stored pending fork while the
\* user is not the owner of the in-memory document targets an id other than
\* the id of that document.
C25_NonOwnerSavesElsewhere ==
  \A sv \in saves :
    (sv.via \in {"onFork", "unloadFork", "pending"} /\ sv.by # sv.owner)
    => sv.id # sv.viewed

====
